---- MODULE Spec2Model ----
(***************************************************************************)
(* Bootstrap of the AstraNotes desktop shell (src-tauri):                  *)
(*   main.rs  main(): dotenv (debug only), extraction of SENTRY_TAURI from *)
(*            the embedded .env text, sentry::init, app_lib::run().        *)
(*   lib.rs   run(): context generation, the builder's plugin chain, the   *)
(*            setup hook (log plugin in debug), Builder::run and expect.   *)
(*                                                                         *)
(* Text is a sequence of character tokens.  KeyTok is one token standing   *)
(* for the twelve characters SENTRY_TAURI; Other stands for any character  *)
(* that is neither '=', '"', whitespace nor a line break.                  *)
(***************************************************************************)
EXTENDS Naturals, Sequences, FiniteSets

VARIABLES
    profile,       \* "debug" | "release": cfg!(debug_assertions)
    envText,       \* the text include_str! embeds from .env
    pc,            \* position of the single bootstrap thread
    dotenvResult,  \* "none" | "ok" | "err": what dotenv::dotenv() returned
    dsn,           \* Option<&str>: None, or Some(value) once extracted
    client,        \* "none" | "enabled" | "disabled": the sentry client
    guard,         \* "none" | "held" | "released": the ClientInitGuard _guard
    sentryDsn,     \* Option: the dsn sentry::init was called with
    ctx,           \* the tauri Context: [owner, config, writes]
    initCalls,     \* plugin init expressions evaluated, in order
    registered,    \* plugins handed to Builder::plugin, in order
    setupHooked,   \* Builder::setup has stored the closure
    runCalls,      \* number of Builder::run invocations
    appBuilt,      \* the App (runtime object) exists
    hookRuns,      \* number of executions of the setup closure
    logAttempts,   \* number of app.handle().plugin(log) calls
    logInstalled,  \* the log plugin is installed
    errors,        \* every error any step has reported so far
    fatal,         \* "none", or the error that terminated the process
    exitCode       \* Option: None while running, else Some(exit status)

vars == <<profile, envText, pc, dotenvResult, dsn, client, guard, sentryDsn,
          ctx, initCalls, registered, setupHooked, runCalls, appBuilt,
          hookRuns, logAttempts, logInstalled, errors, fatal, exitCode>>

----------------------------------------------------------------------------
(* Bounds of the explored inputs *)

MaxTextLen == 6

----------------------------------------------------------------------------
(* Character tokens *)

KeyTok  == "SENTRY_TAURI"
Eq      == "="
Quote   == "DQUOTE"
Space   == "SP"
Newline == "LF"
Other   == "x"

Chars == {KeyTok, Eq, Quote, Space, Newline, Other}

Texts == UNION {[1..n -> Chars] : n \in 0..MaxTextLen}

(* Option<T> *)
None    == <<>>
Some(x) == <<x>>

----------------------------------------------------------------------------
(* The string functions main() chains at main.rs:9-15 *)

(* str::split(c): the pieces between occurrences of c, empty ones kept *)
RECURSIVE Split(_, _)
Split(s, c) ==
    IF \A i \in 1..Len(s) : s[i] # c
    THEN <<s>>
    ELSE LET i == CHOOSE k \in 1..Len(s) :
                      s[k] = c /\ \A j \in 1..(k - 1) : s[j] # c
         IN  <<SubSeq(s, 1, i - 1)>> \o Split(SubSeq(s, i + 1, Len(s)), c)

(* str::lines(): split at line breaks; a final empty piece is no line *)
Lines(text) ==
    LET p == Split(text, Newline)
    IN  IF p[Len(p)] = <<>> THEN SubSeq(p, 1, Len(p) - 1) ELSE p

(* the prefix the closure at main.rs:11 looks for *)
KeyPrefix == <<KeyTok, Eq>>

(* str::starts_with *)
StartsWith(s, prefix) ==
    /\ Len(s) >= Len(prefix)
    /\ SubSeq(s, 1, Len(prefix)) = prefix

(* Variant: the last matching line wins, as with .filter(..).last() *)
FindKeyLine_Last(ls) ==
    IF \A i \in 1..Len(ls) : ~StartsWith(ls[i], KeyPrefix)
    THEN None
    ELSE LET i == CHOOSE k \in 1..Len(ls) :
                      /\ StartsWith(ls[k], KeyPrefix)
                      /\ \A j \in (k + 1)..Len(ls) : ~StartsWith(ls[j], KeyPrefix)
         IN  Some(ls[i])

(* Iterator::find(|line| line.starts_with("SENTRY_TAURI=")): first match *)
FindKeyLine(ls) ==
    IF \A i \in 1..Len(ls) : ~StartsWith(ls[i], KeyPrefix)
    THEN None
    ELSE LET i == CHOOSE k \in 1..Len(ls) :
                      /\ StartsWith(ls[k], KeyPrefix)
                      /\ \A j \in 1..(k - 1) : ~StartsWith(ls[j], KeyPrefix)
         IN  Some(ls[i])

(* Variant: splitn(2, '=').nth(1), everything after the first '=' *)
SplitNth1_Rest(line) ==
    IF \E i \in 1..Len(line) : line[i] = Eq
    THEN LET i == CHOOSE k \in 1..Len(line) :
                      line[k] = Eq /\ \A j \in 1..(k - 1) : line[j] # Eq
         IN  Some(SubSeq(line, i + 1, Len(line)))
    ELSE None

(* Iterator::nth(1) of line.split('='): the second piece, if any *)
SplitNth1(line) ==
    LET p == Split(line, Eq)
    IN  IF Len(p) >= 2 THEN Some(p[2]) ELSE None

(* str::trim_matches(c): every leading and every trailing c is removed *)
RECURSIVE TrimMatches(_, _)
TrimMatches(s, c) ==
    IF s = <<>> THEN s
    ELSE IF s[1] = c THEN TrimMatches(SubSeq(s, 2, Len(s)), c)
    ELSE IF s[Len(s)] = c THEN TrimMatches(SubSeq(s, 1, Len(s) - 1), c)
    ELSE s

(* str::trim(): leading and trailing whitespace removed *)
Trim(s) == TrimMatches(s, Space)

(* main.rs:9-14: the Option the chain yields before .expect *)
ParseDsn(text) ==
    LET l == FindKeyLine(Lines(text))
    IN  IF l = None THEN None
        ELSE LET v == SplitNth1(l[1])
             IN  IF v = None THEN None
                 ELSE Some(TrimMatches(Trim(v[1]), Quote))

----------------------------------------------------------------------------
(* Variant: the chain with the process plugin's link left out *)
Plugins_NoProcess == <<"shell", "dialog", "fs", "http", "updater", "theme">>

(* The builder chain of run(), lib.rs:6-13, in source order *)

Plugins == <<"shell", "process", "dialog", "fs", "http", "updater", "theme">>

Profiles == {"debug", "release"}

(* the context tauri::generate_context!() yields, owned by run() *)
FreshContext == [owner |-> "run", config |-> "generated", writes |-> 0]

(* tauri_plugin_theme::init(ctx.config_mut()): the one &mut borrow of ctx *)
ThemeInit(c) == [c EXCEPT !.config = "themed", !.writes = c.writes + 1]

(* what evaluating plugin p's init expression does to the context *)
InitEffect(p, c) == IF p = "theme" THEN ThemeInit(c) ELSE c

(* .run(ctx): the context is moved into the runtime *)
MoveContext(c) == [c EXCEPT !.owner = "runtime"]

(* Variant: the closure restores the theme into the config itself *)
HookContext_Mutates(c) ==
    [c EXCEPT !.config = "themed", !.writes = c.writes + 1]

(* what the setup closure, lib.rs:14-23, does to the context: nothing *)
HookContext(c) == c

(* Variant: let _ = sentry::init(..), which drops the guard at once *)
BindGuard_Dropped == "released"

(* let _guard = ...: the binding keeps the guard to the end of main *)
BindGuard == "held"

(* A panic (a failed expect, or one raised inside a callee) unwinds main:   *)
(* the step's error is recorded, locals are dropped, the process exits 101. *)
Abort(err) ==
    /\ pc' = "done"
    /\ errors' = errors \cup {err}
    /\ fatal' = err
    /\ exitCode' = Some(101)
    /\ guard' = IF guard = "held" THEN "released" ELSE guard

----------------------------------------------------------------------------
Init ==
    /\ profile \in Profiles
    /\ envText \in Texts
    /\ pc = IF profile = "debug" THEN "dotenv" ELSE "config"
    /\ dotenvResult = "none"
    /\ dsn = None
    /\ client = "none"
    /\ guard = "none"
    /\ sentryDsn = None
    /\ ctx = [owner |-> "none", config |-> "none", writes |-> 0]
    /\ initCalls = <<>>
    /\ registered = <<>>
    /\ setupHooked = FALSE
    /\ runCalls = 0
    /\ appBuilt = FALSE
    /\ hookRuns = 0
    /\ logAttempts = 0
    /\ logInstalled = FALSE
    /\ errors = {}
    /\ fatal = "none"
    /\ exitCode = None

(* main.rs:5-6  #[cfg(debug_assertions)] dotenv::dotenv().ok();            *)
(* .ok() turns the Result into an Option that is dropped: Err goes on.     *)
DotenvLoad ==
    /\ pc = "dotenv"
    /\ \E r \in {"ok", "err"} :
          /\ dotenvResult' = r
          /\ errors' = IF r = "err" THEN errors \cup {"EnvLoadError"} ELSE errors
    /\ pc' = "config"
    /\ UNCHANGED <<profile, envText, dsn, client, guard, sentryDsn, ctx,
                   initCalls, registered, setupHooked, runCalls, appBuilt,
                   hookRuns, logAttempts, logInstalled, fatal, exitCode>>

(* Variant: .unwrap_or("") in place of .expect: a missing key goes on *)
LoadConfig_UnwrapOrDefault ==
    /\ pc = "config"
    /\ LET r == ParseDsn(envText)
       IN  dsn' = IF r = None THEN Some(<<>>) ELSE r
    /\ pc' = "sentry"
    /\ UNCHANGED <<profile, envText, dotenvResult, client, guard, sentryDsn,
                   ctx, initCalls, registered, setupHooked, runCalls,
                   appBuilt, hookRuns, logAttempts, logInstalled, errors,
                   fatal, exitCode>>

(* Variant: main goes from the extraction straight to app_lib::run() *)
LoadConfig_SkipSentry ==
    /\ pc = "config"
    /\ LET r == ParseDsn(envText)
       IN  IF r = None
           THEN /\ Abort("ConfigError")
                /\ UNCHANGED dsn
           ELSE /\ dsn' = r
                /\ pc' = "context"
                /\ UNCHANGED <<errors, fatal, exitCode, guard>>
    /\ UNCHANGED <<profile, envText, dotenvResult, client, sentryDsn, ctx,
                   initCalls, registered, setupHooked, runCalls, appBuilt,
                   hookRuns, logAttempts, logInstalled>>

(* main.rs:9-15  the chain ends in .expect("SENTRY_TAURI must be set ...") *)
LoadConfig ==
    /\ pc = "config"
    /\ LET r == ParseDsn(envText)
       IN  IF r = None
           THEN /\ Abort("ConfigError")
                /\ UNCHANGED dsn
           ELSE /\ dsn' = r
                /\ pc' = "sentry"
                /\ UNCHANGED <<errors, fatal, exitCode, guard>>
    /\ UNCHANGED <<profile, envText, dotenvResult, client, sentryDsn, ctx,
                   initCalls, registered, setupHooked, runCalls, appBuilt,
                   hookRuns, logAttempts, logInstalled>>

(* main.rs:17-23  let _guard = sentry::init((dsn, ClientOptions {..}));     *)
(* The tuple is converted with IntoDsn: an empty string is "no DSN" and     *)
(* gives a disabled client; any other string is parsed, and a string that   *)
(* is no DSN panics ("invalid value for DSN").  Whether a non-empty token   *)
(* string parses is the library's answer, taken both ways.                  *)
SentryInit ==
    /\ pc = "sentry"
    /\ sentryDsn' = dsn
    /\ \/ /\ dsn[1] = <<>>
          /\ client' = "disabled"
          /\ guard' = BindGuard
          /\ pc' = "context"
          /\ UNCHANGED <<errors, fatal, exitCode>>
       \/ /\ dsn[1] # <<>>
          /\ client' = "enabled"
          /\ guard' = BindGuard
          /\ pc' = "context"
          /\ UNCHANGED <<errors, fatal, exitCode>>
       \/ /\ dsn[1] # <<>>
          /\ Abort("TelemetryInitError")
          /\ UNCHANGED client
    /\ UNCHANGED <<profile, envText, dotenvResult, dsn, ctx, initCalls,
                   registered, setupHooked, runCalls, appBuilt, hookRuns,
                   logAttempts, logInstalled>>

(* main.rs:25 app_lib::run(); lib.rs:4 let mut ctx = generate_context!();   *)
GenerateContext ==
    /\ pc = "context"
    /\ ctx' = FreshContext
    /\ pc' = "plugins"
    /\ UNCHANGED <<profile, envText, dotenvResult, dsn, client, guard,
                   sentryDsn, initCalls, registered, setupHooked, runCalls,
                   appBuilt, hookRuns, logAttempts, logInstalled, errors,
                   fatal, exitCode>>

(* Variant: a failed init expression is evaluated a second time and the    *)
(* plugin registered anyway                                                *)
PluginStep_Retry ==
    /\ pc = "plugins"
    /\ Len(registered) < Len(Plugins)
    /\ LET p == Plugins[Len(registered) + 1]
       IN  /\ ctx' = InitEffect(p, ctx)
           /\ registered' = Append(registered, p)
           /\ pc' = IF Len(registered) + 1 = Len(Plugins)
                    THEN "setup" ELSE "plugins"
           /\ \/ initCalls' = Append(initCalls, p)
              \/ initCalls' = Append(Append(initCalls, p), p)
    /\ UNCHANGED <<profile, envText, dotenvResult, dsn, client, guard,
                   sentryDsn, setupHooked, runCalls, appBuilt, hookRuns,
                   logAttempts, logInstalled, errors, fatal, exitCode>>

(* lib.rs:6-13  .plugin(<init expression>), one link of the chain: the      *)
(* argument is evaluated, then Builder::plugin registers it.  The init      *)
(* expressions return the plugin itself, so a failing one can only panic.   *)
PluginStep ==
    /\ pc = "plugins"
    /\ Len(registered) < Len(Plugins)
    /\ LET p == Plugins[Len(registered) + 1]
       IN  /\ initCalls' = Append(initCalls, p)
           /\ ctx' = InitEffect(p, ctx)
           /\ \/ /\ registered' = Append(registered, p)
                 /\ pc' = IF Len(registered) + 1 = Len(Plugins)
                          THEN "setup" ELSE "plugins"
                 /\ UNCHANGED <<errors, fatal, exitCode, guard>>
              \/ /\ Abort("PluginInitError:" \o p)
                 /\ UNCHANGED registered
    /\ UNCHANGED <<profile, envText, dotenvResult, dsn, client, sentryDsn,
                   setupHooked, runCalls, appBuilt, hookRuns, logAttempts,
                   logInstalled>>

(* lib.rs:14-23  .setup(|app| {...}): the closure is stored, not run *)
RegisterSetup ==
    /\ pc = "setup"
    /\ setupHooked' = TRUE
    /\ pc' = "run"
    /\ UNCHANGED <<profile, envText, dotenvResult, dsn, client, guard,
                   sentryDsn, ctx, initCalls, registered, runCalls, appBuilt,
                   hookRuns, logAttempts, logInstalled, errors, fatal,
                   exitCode>>

(* lib.rs:24-25  .run(ctx): the context is moved in and the App is built;   *)
(* a build error comes back as Err and .expect panics.                      *)
RunBuild ==
    /\ pc = "run"
    /\ runCalls' = runCalls + 1
    /\ ctx' = MoveContext(ctx)
    /\ \/ /\ appBuilt' = TRUE
          /\ pc' = "hook"
          /\ UNCHANGED <<errors, fatal, exitCode, guard>>
       \/ /\ Abort("RuntimeError")
          /\ UNCHANGED appBuilt
    /\ UNCHANGED <<profile, envText, dotenvResult, dsn, client, sentryDsn,
                   initCalls, registered, setupHooked, hookRuns, logAttempts,
                   logInstalled>>

(* Variant: the closure without the cfg!(debug_assertions) test *)
SetupHook_Unconditional ==
    /\ pc = "hook"
    /\ appBuilt
    /\ hookRuns' = hookRuns + 1
    /\ logAttempts' = logAttempts + 1
    /\ \/ /\ logInstalled' = TRUE
          /\ pc' = "loop"
          /\ UNCHANGED <<errors, fatal, exitCode, guard>>
       \/ /\ Abort("LoggingInitError")
          /\ UNCHANGED logInstalled
    /\ UNCHANGED <<profile, envText, dotenvResult, dsn, client, sentryDsn,
                   ctx, initCalls, registered, setupHooked, runCalls,
                   appBuilt>>

(* Variant: the closure discards the log plugin's Result (no `?`) *)
SetupHook_IgnoresLogError ==
    /\ pc = "hook"
    /\ appBuilt
    /\ hookRuns' = hookRuns + 1
    /\ pc' = "loop"
    /\ \/ /\ profile = "debug"
          /\ logAttempts' = logAttempts + 1
          /\ logInstalled' = TRUE
          /\ UNCHANGED errors
       \/ /\ profile = "debug"
          /\ logAttempts' = logAttempts + 1
          /\ errors' = errors \cup {"LoggingInitError"}
          /\ UNCHANGED logInstalled
       \/ /\ profile # "debug"
          /\ UNCHANGED <<logAttempts, logInstalled, errors>>
    /\ UNCHANGED <<profile, envText, dotenvResult, dsn, client, guard,
                   sentryDsn, ctx, initCalls, registered, setupHooked,
                   runCalls, appBuilt, fatal, exitCode>>

(* lib.rs:14-23  the setup closure, called with the built App:              *)
(*   if cfg!(debug_assertions) { app.handle().plugin(log)?; }  Ok(())       *)
SetupHook ==
    /\ pc = "hook"
    /\ appBuilt
    /\ hookRuns' = hookRuns + 1
    /\ ctx' = HookContext(ctx)
    /\ \/ /\ profile = "debug"
          /\ logAttempts' = logAttempts + 1
          /\ logInstalled' = TRUE
          /\ pc' = "loop"
          /\ UNCHANGED <<errors, fatal, exitCode, guard>>
       \/ /\ profile = "debug"
          /\ logAttempts' = logAttempts + 1
          /\ Abort("LoggingInitError")
          /\ UNCHANGED logInstalled
       \/ /\ profile # "debug"
          /\ pc' = "loop"
          /\ UNCHANGED <<logAttempts, logInstalled, errors, fatal, exitCode,
                         guard>>
    /\ UNCHANGED <<profile, envText, dotenvResult, dsn, client, sentryDsn,
                   initCalls, registered, setupHooked, runCalls, appBuilt>>

(* lib.rs:24  the event loop takes over the thread *)
EventLoopStart ==
    /\ pc = "loop"
    /\ pc' = "running"
    /\ UNCHANGED <<profile, envText, dotenvResult, dsn, client, guard,
                   sentryDsn, ctx, initCalls, registered, setupHooked,
                   runCalls, appBuilt, hookRuns, logAttempts, logInstalled,
                   errors, fatal, exitCode>>

(* Variant: .run(ctx).ok() in place of .expect: an Err returns normally *)
RunReturn_IgnoresError ==
    /\ pc = "running"
    /\ pc' = "done"
    /\ guard' = IF guard = "held" THEN "released" ELSE guard
    /\ exitCode' = Some(0)
    /\ \/ UNCHANGED errors
       \/ errors' = errors \cup {"RuntimeError"}
    /\ UNCHANGED <<profile, envText, dotenvResult, dsn, client, sentryDsn,
                   ctx, initCalls, registered, setupHooked, runCalls,
                   appBuilt, hookRuns, logAttempts, logInstalled, fatal>>

(* lib.rs:24-25, main.rs:25-26  run returns: Err makes .expect panic; Ok    *)
(* returns through run() and main(), whose end drops _guard; exit status 0. *)
RunReturn ==
    /\ pc = "running"
    /\ \/ /\ pc' = "done"
          /\ guard' = IF guard = "held" THEN "released" ELSE guard
          /\ exitCode' = Some(0)
          /\ UNCHANGED <<errors, fatal>>
       \/ Abort("RuntimeError")
    /\ UNCHANGED <<profile, envText, dotenvResult, dsn, client, sentryDsn,
                   ctx, initCalls, registered, setupHooked, runCalls,
                   appBuilt, hookRuns, logAttempts, logInstalled>>

Next ==
    \/ DotenvLoad
    \/ LoadConfig
    \/ SentryInit
    \/ GenerateContext
    \/ PluginStep
    \/ RegisterSetup
    \/ RunBuild
    \/ SetupHook
    \/ EventLoopStart
    \/ RunReturn

Spec == Init /\ [][Next]_vars

----------------------------------------------------------------------------
(* The bootstrap states of the design, read off the program position *)

State ==
    CASE pc \in {"dotenv", "config"}            -> "Unconfigured"
      [] pc = "sentry"                          -> "ConfigLoaded"
      [] pc \in {"context", "plugins", "setup"} -> "TelemetryReady"
      [] pc \in {"run", "hook"}                 -> "PluginsRegistered"
      [] pc = "loop" /\ logInstalled            -> "LoggingInstalled"
      [] pc = "loop" /\ ~logInstalled           -> "LoggingSkipped"
      [] pc = "running"                         -> "Running"
      [] pc = "done"                            -> "Terminated"

Rank(st) ==
    CASE st = "Unconfigured"      -> 1
      [] st = "ConfigLoaded"      -> 2
      [] st = "TelemetryReady"    -> 3
      [] st = "PluginsRegistered" -> 4
      [] st \in {"LoggingInstalled", "LoggingSkipped"} -> 5
      [] st = "Running"           -> 6
      [] st = "Terminated"        -> 7

(* the text holds the key, directly followed by '=', at the start of a line *)
HasKeyAtLineStart(text) ==
    \E i \in 1..(Len(text) - 1) :
        /\ text[i] = KeyTok
        /\ text[i + 1] = Eq
        /\ (i = 1 \/ text[i - 1] = Newline)

(* the raw text after the '=' of the first key line, up to the line's end *)
KeyLineValue(text) ==
    LET i == CHOOSE k \in 1..(Len(text) - 1) :
                 /\ text[k] = KeyTok /\ text[k + 1] = Eq
                 /\ (k = 1 \/ text[k - 1] = Newline)
                 /\ \A j \in 1..(k - 1) :
                        ~(/\ text[j] = KeyTok /\ text[j + 1] = Eq
                          /\ (j = 1 \/ text[j - 1] = Newline))
        rest == SubSeq(text, i + 2, Len(text))
        stop == IF \E k \in 1..Len(rest) : rest[k] = Newline
                THEN CHOOSE k \in 1..Len(rest) :
                         rest[k] = Newline /\ \A j \in 1..(k - 1) : rest[j] # Newline
                ELSE Len(rest) + 1
    IN  SubSeq(rest, 1, stop - 1)

(* one matching pair of enclosing quotes removed, if there is one *)
StripOnePair(s) ==
    IF Len(s) >= 2 /\ s[1] = Quote /\ s[Len(s)] = Quote
    THEN SubSeq(s, 2, Len(s) - 1)
    ELSE s

----------------------------------------------------------------------------
(* C1: when the embedded text has no line that starts with the required    *)
(* key, the extraction fails fatally (ConfigError) and the process ends    *)
(* without sentry::init, any plugin init or registration, or Builder::run  *)
(* ever having been invoked.                                               *)
C1_MissingKeyIsFatal ==
    ~HasKeyAtLineStart(envText) =>
        /\ pc \in {"dotenv", "config", "done"}
        /\ pc = "done" => fatal = "ConfigError" /\ exitCode = Some(101)
        /\ dsn = None /\ sentryDsn = None
        /\ client = "none" /\ guard = "none"
        /\ initCalls = <<>> /\ registered = <<>>
        /\ runCalls = 0 /\ hookRuns = 0

(* a text that names the key, but not at a line start, has been refused *)
C1_Witness ==
    /\ ~HasKeyAtLineStart(envText)
    /\ \E i \in 1..Len(envText) : envText[i] = KeyTok
    /\ pc = "done"
    /\ fatal = "ConfigError"

(* C2: for a text with a key line whose value holds no further '=', the    *)
(* extracted value is the text after the key's '=' with surrounding        *)
(* whitespace removed and at most one matching pair of enclosing quotes    *)
(* removed: never a second quote on a side, never an unmatched quote.      *)
C2_ExactValue ==
    (/\ dsn # None
     /\ \A k \in 1..Len(KeyLineValue(envText)) : KeyLineValue(envText)[k] # Eq)
        => dsn = Some(StripOnePair(Trim(KeyLineValue(envText))))

(* C3: once sentry::init has produced the guard, it is held in every state *)
(* before Terminated (through plugin registration, the setup hook and the  *)
(* blocking run) and is released only by the step that terminates.         *)
C3_GuardHeldUntilTermination ==
    /\ (client # "none" /\ pc # "done") => guard = "held"
    /\ guard = "released" => pc = "done"
    /\ guard = "none" => client = "none"

(* the event loop is running and the guard is still held *)
C3_Witness == pc = "running" /\ client = "enabled" /\ guard = "held"

(* C4: plugin init expressions run in registration order; every plugin     *)
(* registered on the builder had its init run exactly once; an init that   *)
(* fails ends the run, is not run again, and leaves the earlier plugins    *)
(* with exactly one init each; a finished chain has registered them all.   *)
C4_InitOncePerPluginInOrder ==
    /\ Len(initCalls) \in {Len(registered), Len(registered) + 1}
    /\ SubSeq(initCalls, 1, Len(registered)) = registered
    /\ \A i \in 1..Len(registered) :
           Cardinality({j \in 1..Len(initCalls) : initCalls[j] = registered[i]}) = 1
    /\ \A i, j \in 1..Len(initCalls) : initCalls[i] = initCalls[j] => i = j
    /\ Len(initCalls) = Len(registered) + 1 =>
           /\ pc = "done"
           /\ fatal = "PluginInitError:" \o initCalls[Len(initCalls)]
    /\ pc \in {"setup", "run", "hook", "loop", "running"} =>
           Len(registered) = Len(Plugins)

(* the last plugin's init failed after six plugins were registered *)
C4_Witness ==
    /\ pc = "done"
    /\ fatal = "PluginInitError:theme"
    /\ Len(registered) = 6
    /\ Len(initCalls) = 7

(* C5: the log plugin is installed only in a debug profile: in debug every *)
(* run of the setup hook makes exactly one installation attempt; in        *)
(* release there is no attempt, no installation and no logging error, and  *)
(* the hook ends in LoggingSkipped.                                        *)
C5_LoggingIffDebug ==
    /\ hookRuns <= 1
    /\ profile = "debug" => logAttempts = hookRuns
    /\ profile = "release" =>
           /\ logAttempts = 0
           /\ ~logInstalled
           /\ "LoggingInitError" \notin errors
    /\ logInstalled => profile = "debug" /\ logAttempts = 1
    /\ State = "LoggingInstalled" => profile = "debug"
    /\ State = "LoggingSkipped" => profile = "release" /\ hookRuns = 1

(* a debug run has installed the log plugin in the setup hook *)
C5_Witness ==
    /\ profile = "debug"
    /\ State = "LoggingInstalled"
    /\ hookRuns = 1
    /\ logAttempts = 1

(* C6: the bootstrap states are visited in the order Unconfigured,         *)
(* ConfigLoaded, TelemetryReady, PluginsRegistered, LoggingInstalled or    *)
(* LoggingSkipped, Running, Terminated: a step stays in its state, moves   *)
(* to the next one, or ends in Terminated.  The sentry client exists       *)
(* before any plugin init; the setup hook runs with the App built and all  *)
(* plugins registered, and has finished before the event loop runs.        *)
C6_StepInOrder ==
    \/ Rank(State') = Rank(State)
    \/ Rank(State') = Rank(State) + 1
    \/ State' = "Terminated"

C6_OrderInvariant ==
    /\ initCalls # <<>> => client # "none" /\ sentryDsn # None
    /\ ctx.owner # "none" => client # "none"
    /\ hookRuns > 0 => appBuilt /\ registered = Plugins /\ runCalls = 1
    /\ pc \in {"loop", "running"} => hookRuns = 1
    /\ pc = "hook" => hookRuns = 0
    /\ Rank(State) >= 2 /\ State # "Terminated" => dsn # None
    /\ Rank(State) >= 4 /\ State # "Terminated" => registered = Plugins /\ setupHooked

C6_LinearBootstrap == [][C6_StepInOrder]_vars /\ []C6_OrderInvariant

(* the run has gone through every state up to Running *)
C6_Witness ==
    /\ State = "Running"
    /\ hookRuns = 1
    /\ registered = Plugins
    /\ client # "none"

(* C7 as stated: every error of every step, the environment load included, *)
(* ends the run at once, and Running is never reached after an error.      *)
C7_EveryErrorFatal ==
    /\ errors # {} => pc = "done" /\ fatal \in errors
    /\ pc = "running" => errors = {}

(* C7 amended: every error a step reports from the key extraction onward   *)
(* (config, telemetry init, plugin init, log installation, runtime) ends   *)
(* the run in Terminated(fatal) at that step, so at most one such error is *)
(* ever reported and Running is never reached after one; only the result   *)
(* of the debug-only dotenv load is discarded and the run goes on.         *)
C7_EveryErrorButDotenvFatal ==
    /\ (errors \ {"EnvLoadError"}) # {} =>
           /\ pc = "done"
           /\ fatal \in (errors \ {"EnvLoadError"})
           /\ exitCode = Some(101)
    /\ Cardinality(errors \ {"EnvLoadError"}) <= 1
    /\ fatal # "none" => fatal \in errors
    /\ pc \in {"loop", "running"} => errors \subseteq {"EnvLoadError"}
    /\ "EnvLoadError" \in errors <=> dotenvResult = "err"
    /\ fatal # "EnvLoadError"

(* a failed log installation ended a run whose dotenv error was let pass *)
C7_Witness ==
    /\ pc = "done"
    /\ fatal = "LoggingInitError"
    /\ errors = {"EnvLoadError", "LoggingInitError"}

(* C8: for every secret the extraction can hand over, sentry::init either  *)
(* yields a working client with its guard or aborts startup: no run goes   *)
(* on from sentry::init with a client that is disabled.                    *)
C8_NoSilentTelemetryFailure ==
    sentryDsn # None =>
        \/ client = "enabled" /\ guard # "none"
        \/ fatal = "TelemetryInitError" /\ client = "none"

(* a URL of n characters, none of them '=', '"' or whitespace *)
Url(n) == [k \in 1..n |-> Other]

(* the first line of the embedded text is SENTRY_TAURI="v" *)
FirstLineIsQuoted(v) ==
    /\ Lines(envText) # <<>>
    /\ Lines(envText)[1] = KeyPrefix \o <<Quote>> \o v \o <<Quote>>

C10_WriteOnlyInAssembly ==
    /\ (ctx'.writes # ctx.writes \/ ctx'.config # ctx.config) =>
           /\ pc \in {"context", "plugins"}
           /\ runCalls = 0 /\ runCalls' = 0
    /\ ctx'.writes # ctx.writes =>
           /\ pc = "plugins"
           /\ Plugins[Len(registered) + 1] = "theme"
           /\ ctx'.writes = ctx.writes + 1
    /\ runCalls >= 1 => ctx' = ctx

C10_FrozenInvariant ==
    /\ ctx.writes <= 1
    /\ runCalls >= 1 => ctx.owner = "runtime"
    /\ runCalls = 0 => ctx.owner \in {"none", "run"}
    /\ "theme" \in {registered[i] : i \in 1..Len(registered)} => ctx.writes = 1

C10_ContextFrozenAtRun == [][C10_WriteOnlyInAssembly]_vars /\ []C10_FrozenInvariant

(* the runtime owns the context the theme plugin wrote once, and runs *)
C10_Witness ==
    /\ pc = "running"
    /\ ctx.owner = "runtime"
    /\ ctx.writes = 1
    /\ ctx.config = "themed"

(* C11: every fatal startup error (config, telemetry, plugin, logging or    *)
(* runtime) ends the process with a non-zero exit status and a diagnostic  *)
(* naming the error; the status is zero only when Builder::run was entered *)
(* (App built, setup hook done, event loop run) and returned without error.*)
C11_ExitStatus ==
    /\ pc = "done" <=> exitCode # None
    /\ exitCode \in {None, Some(0), Some(101)}
    /\ (errors \ {"EnvLoadError"}) # {} =>
           /\ exitCode = Some(101)
           /\ fatal \in (errors \ {"EnvLoadError"})
    /\ fatal # "none" => exitCode = Some(101)
    /\ exitCode = Some(101) => fatal # "none"
    /\ exitCode = Some(0) =>
           /\ fatal = "none"
           /\ errors \subseteq {"EnvLoadError"}
           /\ runCalls = 1 /\ appBuilt /\ hookRuns = 1
           /\ registered = Plugins

(* the run failed inside the event loop and left with status 101 *)
C11_Witness ==
    /\ pc = "done"
    /\ runCalls = 1
    /\ hookRuns = 1
    /\ fatal = "RuntimeError"
    /\ exitCode = Some(101)

(* C12: the extraction's outcome is decided by the first line, in file     *)
(* order, that begins with SENTRY_TAURI= (nothing before the key on the    *)
(* line): it aborts exactly when there is no such line, and otherwise      *)
(* succeeds with the value extracted from that line alone, an empty value  *)
(* included, whatever later lines carry the same key.                      *)
C12_FirstKeyLineDecides ==
    pc \notin {"dotenv", "config"} =>
        /\ fatal = "ConfigError" <=> ~HasKeyAtLineStart(envText)
        /\ ~HasKeyAtLineStart(envText) => dsn = None /\ pc = "done"
        /\ HasKeyAtLineStart(envText) =>
               /\ dsn # None
               /\ dsn = ParseDsn(KeyPrefix \o KeyLineValue(envText))

(* two key lines, the first with an empty value: the empty value was taken *)
C12_Witness ==
    /\ envText = KeyPrefix \o <<Newline>> \o KeyPrefix \o <<Other>>
    /\ pc \notin {"dotenv", "config", "done"}
    /\ dsn = Some(<<>>)

(* the first '=' of a value, which is the second '=' of its key line *)
FirstEq(v) ==
    CHOOSE k \in 1..Len(v) : v[k] = Eq /\ \A j \in 1..(k - 1) : v[j] # Eq

(* C13: when the value of the key line itself holds an '=', the extracted  *)
(* value is made from the segment between the line's first and second '='  *)
(* only: it is that segment trimmed and unquoted, holds no '=', and is a   *)
(* strict prefix of what the whole value would have given.                 *)
C13_CutAtSecondEq ==
    (/\ dsn # None
     /\ \E k \in 1..Len(KeyLineValue(envText)) : KeyLineValue(envText)[k] = Eq)
        => LET v     == KeyLineValue(envText)
               seg   == SubSeq(v, 1, FirstEq(v) - 1)
               whole == TrimMatches(Trim(v), Quote)
               out   == dsn[1]
           IN  /\ dsn = Some(TrimMatches(Trim(seg), Quote))
               /\ \A k \in 1..Len(out) : out[k] # Eq
               /\ Len(out) < Len(whole)
               /\ SubSeq(whole, 1, Len(out)) = out

(* SENTRY_TAURI=x=xx was cut down to x *)
C13_Witness ==
    /\ envText = KeyPrefix \o <<Other, Eq, Other, Other>>
    /\ pc \notin {"dotenv", "config", "done"}
    /\ dsn = Some(<<Other>>)

====
